---- MODULE Spec2Model ----
(***************************************************************************)
(* A model of the retrieval-decision and confidence-gated augmentation     *)
(* pipeline of the chat backend: utils/rag.ts (shouldRetrieveDocuments,    *)
(* assessAnswerConfidence), utils/openai.ts (OpenAIChat), utils/session.ts *)
(* (the session store) and the two versions of routes/chat.ts (the JSON    *)
(* handler and the streaming handler).                                     *)
(*                                                                         *)
(* Strings the code transforms (the model's raw output) are sequences of   *)
(* one-character strings, so that trim() and toUpperCase() are computed.   *)
(* Scores are in hundredths: 0.9 is 90, 0.7 is 70, 0.4 is 40, -1 is -100.  *)
(***************************************************************************)
EXTENDS Integers, Sequences, FiniteSets, TLC

\* ------------------------------------------------------------ bounds
\* Most retrieval entries of a session state handed to shouldRetrieveDocuments
\* in the specification of utils/rag.ts.
MaxEntries == 2
\* Longest conversation history of such a session state.
MaxHistoryLen == 3

\* ------------------------------------------------------------ configuration
\* utils/config.ts is not among the sources; the spec names the constants and
\* gives CONFIDENCE_THRESHOLD its default 0.7; the two integers are small
\* values chosen here.
CONFIDENCE_THRESHOLD == 70
MAX_CONTEXT_AGE == 2
MAX_RETRIEVAL_HISTORY == 2
\* The fixed wall-clock staleness bound of shouldRetrieveDocuments, in ms.
STALE_MS == 300000
\* bestConfidence starts at -1.
INITIAL_BEST == -100

\* ------------------------------------------------------------ strings
WHITESPACE == {" ", "\n", "\t", "\r"}
LOWER == <<"a", "b", "c", "d", "e", "f", "g", "h", "i", "j", "k", "l", "m",
           "n", "o", "p", "q", "r", "s", "t", "u", "v", "w", "x", "y", "z">>
UPPER == <<"A", "B", "C", "D", "E", "F", "G", "H", "I", "J", "K", "L", "M",
           "N", "O", "P", "Q", "R", "S", "T", "U", "V", "W", "X", "Y", "Z">>

\* String.prototype.trim: drop the leading and the trailing white space.
RECURSIVE trimStart(_)
trimStart(s) ==
    IF s # <<>> /\ Head(s) \in WHITESPACE THEN trimStart(Tail(s)) ELSE s

RECURSIVE trimEnd(_)
trimEnd(s) ==
    IF s # <<>> /\ s[Len(s)] \in WHITESPACE
    THEN trimEnd(SubSeq(s, 1, Len(s) - 1))
    ELSE s

trim(s) == trimEnd(trimStart(s))

\* String.prototype.toUpperCase, on the letters a..z.
upperChar(c) ==
    IF \E i \in 1..Len(LOWER) : LOWER[i] = c
    THEN UPPER[CHOOSE i \in 1..Len(LOWER) : LOWER[i] = c]
    ELSE c

toUpperCase(s) == [i \in 1..Len(s) |-> upperChar(s[i])]

HIGH == <<"H", "I", "G", "H">>
MEDIUM == <<"M", "E", "D", "I", "U", "M">>
LOW == <<"L", "O", "W">>

\* Array.prototype.join of a list of strings kept as atoms: the list with the
\* separator between its elements.
RECURSIVE join(_, _)
join(parts, sep) ==
    IF Len(parts) = 0 THEN <<>>
    ELSE IF Len(parts) = 1 THEN <<parts[1]>>
    ELSE <<parts[1], sep>> \o join(Tail(parts), sep)

\* ------------------------------------------------------------ the chat model
\* What one HTTP call to the completion endpoint can do.
RawOutputs ==
    { HIGH, MEDIUM, LOW,
      <<" ", "h", "i", "g", "h", "\n">>,
      <<"L", "o", "w">>,
      <<"m", "e", "d", "i", "u", "m", " ">>,
      <<"M", "a", "y", "b", "e">>,
      <<"H", "I", "G", "H", ".">>,
      <<>> }

FailureKinds == {"network_error", "timeout", "http_error", "bad_json",
                 "no_choices", "null_content"}

ModelReplies ==
    [kind : {"ok"}, content : RawOutputs] \cup [kind : FailureKinds, content : {<<>>}]

\* The replies the decision loop is tried with: one per outcome of the assessor.
LoopReplies ==
    { [kind |-> "ok", content |-> HIGH],
      [kind |-> "ok", content |-> LOW],
      [kind |-> "timeout", content |-> <<>>] }

\* OpenAIChat.generateResponse: the content of the first choice, or a throw.
\* A response whose content is null is returned as it is.
generateResponse(reply) ==
    CASE reply.kind = "ok" -> [threw |-> FALSE, isNull |-> FALSE, value |-> reply.content]
      [] reply.kind = "null_content" -> [threw |-> FALSE, isNull |-> TRUE, value |-> <<>>]
      [] OTHER -> [threw |-> TRUE, isNull |-> FALSE, value |-> <<>>]

\* The call of the chat model fails: generateResponse throws, or gives the
\* null on which trim() throws.
callFails(reply) ==
    LET r == generateResponse(reply) IN r.threw \/ r.isNull

\* assessConfidence with a catch block that answers "HIGH".
assessConfidenceFailHigh(reply) ==
    LET r == generateResponse(reply)
    IN  IF r.threw \/ r.isNull
        THEN [threw |-> FALSE, value |-> HIGH]
        ELSE [threw |-> FALSE, value |-> toUpperCase(trim(r.value))]

\* assessConfidence with a catch block that answers "LOW".
assessConfidenceFailLow(reply) ==
    LET r == generateResponse(reply)
    IN  IF r.threw \/ r.isNull
        THEN [threw |-> FALSE, value |-> LOW]
        ELSE [threw |-> FALSE, value |-> toUpperCase(trim(r.value))]

\* OpenAIChat.assessConfidence: the trimmed, upper-cased output; "MEDIUM" when
\* generateResponse throws or trim() is called on null.
assessConfidence(reply) ==
    LET r == generateResponse(reply)
    IN  IF r.threw \/ r.isNull
        THEN [threw |-> FALSE, value |-> MEDIUM]
        ELSE [threw |-> FALSE, value |-> toUpperCase(trim(r.value))]

\* The table lookup without its "|| 0.7".
confidenceScoreNoDefault(confidence) ==
    CASE confidence = HIGH -> 90
      [] confidence = MEDIUM -> 70
      [] confidence = LOW -> 40
      [] OTHER -> 0

\* confidenceScores[confidence] || 0.7
confidenceScore(confidence) ==
    LET found == CASE confidence = HIGH -> 90
                   [] confidence = MEDIUM -> 70
                   [] confidence = LOW -> 40
                   [] OTHER -> 0
    IN  IF found # 0 THEN found ELSE 70

\* An assessor with no catch block on either level: a failed call is thrown on.
assessAnswerConfidenceNoCatch(reply) ==
    LET r == generateResponse(reply)
    IN  IF r.threw \/ r.isNull
        THEN [threw |-> TRUE, level |-> <<>>, score |-> 0]
        ELSE [threw |-> FALSE, level |-> toUpperCase(trim(r.value)),
              score |-> confidenceScore(toUpperCase(trim(r.value)))]

\* assessAnswerConfidence of utils/rag.ts.
assessAnswerConfidence(reply) ==
    LET c == assessConfidence(reply)
    IN  IF c.threw
        THEN [threw |-> FALSE, level |-> MEDIUM, score |-> 70]
        ELSE [threw |-> FALSE, level |-> c.value, score |-> confidenceScore(c.value)]

\* ------------------------------------------------------------ the decision engine
\* Number.prototype.toFixed(2) of a score in hundredths, 0 <= score < 1000.
DIGITS == <<"0", "1", "2", "3", "4", "5", "6", "7", "8", "9">>
toFixed2(score) ==
    <<DIGITS[(score \div 100) + 1], ".",
      DIGITS[((score \div 10) % 10) + 1], DIGITS[(score % 10) + 1]>>

\* A default decision that does not ask for a retrieval.
defaultDecisionNoRetrieve ==
    [shouldRetrieve |-> FALSE, reason |-> <<"initial_retrieval">>, useCache |-> FALSE,
     cacheAge |-> 0, cachedNull |-> TRUE, cachedDocs |-> <<>>, cachedRef |-> 0]

\* const decision = { shouldRetrieve: true, reason: "initial_retrieval", ... }
defaultDecision ==
    [shouldRetrieve |-> TRUE, reason |-> <<"initial_retrieval">>, useCache |-> FALSE,
     cacheAge |-> 0, cachedNull |-> TRUE, cachedDocs |-> <<>>, cachedRef |-> 0]

\* The staleness test with && in place of ||.
isStaleBoth(messagesSinceRetrieval, timeSinceRetrieval) ==
    /\ messagesSinceRetrieval > MAX_CONTEXT_AGE
    /\ timeSinceRetrieval > STALE_MS

\* The test that skips an entry of the retrieval history.
isStale(messagesSinceRetrieval, timeSinceRetrieval) ==
    \/ messagesSinceRetrieval > MAX_CONTEXT_AGE
    \/ timeSinceRetrieval > STALE_MS

\* The comparison with >= in place of >.
isBetterOrEqual(score, bestConfidence) == score >= bestConfidence

\* if (confidence.score > bestConfidence)
isBetter(score, bestConfidence) == score > bestConfidence

\* The threshold test with >= in place of >.
atOrAboveThreshold(bestConfidence) == bestConfidence >= CONFIDENCE_THRESHOLD

\* if (bestConfidence > RETRIEVAL_CONFIG.CONFIDENCE_THRESHOLD)
aboveThreshold(bestConfidence) == bestConfidence > CONFIDENCE_THRESHOLD

\* The state of the loop over sessionData.retrievalHistory: the three "best"
\* locals, the clock, and the record of what was done with each entry.
\* bestRef is the position of the entry whose documents array bestDocs is.
loopStart(now0) ==
    [bestConfidence |-> INITIAL_BEST, bestNull |-> TRUE, bestDocs |-> <<>>,
     bestRef |-> 0, bestAge |-> 0, clock |-> now0, evals |-> <<>>]

\* An iteration that starts its assessor call without waiting for the call of
\* the iteration before it: every call starts at the time the loop started.
loopBodyParallel(sessionData, i, reply, dt, acc) ==
    LET entry == sessionData.retrievalHistory[i]
        messagesSinceRetrieval == Len(sessionData.history) - entry.messageIndex
        timeSinceRetrieval == acc.clock - entry.timestamp
        cachedContext == join(entry.documents, "\n\n")
        confidence == assessAnswerConfidence(reply)
        seen == [entry |-> i, at |-> acc.clock,
                 messagesSinceRetrieval |-> messagesSinceRetrieval,
                 timeSinceRetrieval |-> timeSinceRetrieval]
    IN  IF isStale(messagesSinceRetrieval, timeSinceRetrieval)
        THEN [acc EXCEPT !.evals = Append(@,
                  seen @@ [called |-> FALSE, context |-> <<>>, level |-> <<>>,
                           score |-> 0, returned |-> acc.clock])]
        ELSE LET after ==
                   [acc EXCEPT !.clock = @,
                               !.evals = Append(@,
                                  seen @@ [called |-> TRUE, context |-> cachedContext,
                                           level |-> confidence.level,
                                           score |-> confidence.score,
                                           returned |-> acc.clock + dt])]
             IN  IF isBetter(confidence.score, acc.bestConfidence)
                 THEN [after EXCEPT !.bestConfidence = confidence.score,
                                    !.bestNull = FALSE,
                                    !.bestDocs = entry.documents,
                                    !.bestRef = i,
                                    !.bestAge = messagesSinceRetrieval]
                 ELSE after

\* One iteration of the loop, for the entry at position i. reply is what the
\* chat model does if it is asked, dt the time that call takes.
loopBody(sessionData, i, reply, dt, acc) ==
    LET entry == sessionData.retrievalHistory[i]
        messagesSinceRetrieval == Len(sessionData.history) - entry.messageIndex
        timeSinceRetrieval == acc.clock - entry.timestamp
        cachedContext == join(entry.documents, "\n\n")
        confidence == assessAnswerConfidence(reply)
        seen == [entry |-> i, at |-> acc.clock,
                 messagesSinceRetrieval |-> messagesSinceRetrieval,
                 timeSinceRetrieval |-> timeSinceRetrieval]
    IN  IF isStale(messagesSinceRetrieval, timeSinceRetrieval)
        THEN [acc EXCEPT !.evals = Append(@,
                  seen @@ [called |-> FALSE, context |-> <<>>, level |-> <<>>,
                           score |-> 0, returned |-> acc.clock])]
        ELSE LET after ==
                   [acc EXCEPT !.clock = @ + dt,
                               !.evals = Append(@,
                                  seen @@ [called |-> TRUE, context |-> cachedContext,
                                           level |-> confidence.level,
                                           score |-> confidence.score,
                                           returned |-> acc.clock + dt])]
             IN  IF isBetter(confidence.score, acc.bestConfidence)
                 THEN [after EXCEPT !.bestConfidence = confidence.score,
                                    !.bestNull = FALSE,
                                    !.bestDocs = entry.documents,
                                    !.bestRef = i,
                                    !.bestAge = messagesSinceRetrieval]
                 ELSE after

RECURSIVE loop(_, _, _, _, _)
loop(sessionData, i, replies, dts, acc) ==
    IF i > Len(sessionData.retrievalHistory) THEN acc
    ELSE loop(sessionData, i + 1, replies, dts,
              loopBody(sessionData, i, replies[i], dts[i], acc))

\* The cache decision without the assignment of cacheAge.
cacheDecisionNoAge(acc) ==
    [shouldRetrieve |-> FALSE,
     reason |-> <<"high_confidence_with_cache_">> \o toFixed2(acc.bestConfidence),
     useCache |-> TRUE,
     cacheAge |-> 0,
     cachedNull |-> acc.bestNull,
     cachedDocs |-> acc.bestDocs,
     cachedRef |-> acc.bestRef]

\* The decision returned when the best score is above the threshold.
cacheDecision(acc) ==
    [shouldRetrieve |-> FALSE,
     reason |-> <<"high_confidence_with_cache_">> \o toFixed2(acc.bestConfidence),
     useCache |-> TRUE,
     cacheAge |-> acc.bestAge,
     cachedNull |-> acc.bestNull,
     cachedDocs |-> acc.bestDocs,
     cachedRef |-> acc.bestRef]

\* A decision engine that deletes the entries it finds stale.
shouldRetrieveDocumentsPruning(sessionData, now0, replies, dts) ==
    LET acc == IF Len(sessionData.retrievalHistory) > 0
               THEN loop(sessionData, 1, replies, dts, loopStart(now0))
               ELSE loopStart(now0)
        entries == sessionData.retrievalHistory
        kept[i \in 0..Len(entries)] ==
            IF i = 0 THEN <<>>
            ELSE kept[i - 1] \o (IF acc.evals[i].called THEN <<entries[i]>> ELSE <<>>)
        pruned == [sessionData EXCEPT !.retrievalHistory = kept[Len(entries)]]
    IN  IF Len(sessionData.retrievalHistory) > 0 /\ aboveThreshold(acc.bestConfidence)
        THEN [decision |-> cacheDecision(acc), clock |-> acc.clock, evals |-> acc.evals,
              sessionData |-> pruned]
        ELSE [decision |-> defaultDecision, clock |-> acc.clock, evals |-> acc.evals,
              sessionData |-> pruned]

\* shouldRetrieveDocuments(query, sessionData, openaiChat), started at time
\* now0: the decision, the time it returns, the record of the loop, and the
\* object sessionData as the call leaves it. The function reads
\* sessionData.history.length and the entries and assigns to none of them.
shouldRetrieveDocuments(sessionData, now0, replies, dts) ==
    LET acc == IF Len(sessionData.retrievalHistory) > 0
               THEN loop(sessionData, 1, replies, dts, loopStart(now0))
               ELSE loopStart(now0)
    IN  IF Len(sessionData.retrievalHistory) > 0 /\ aboveThreshold(acc.bestConfidence)
        THEN [decision |-> cacheDecision(acc), clock |-> acc.clock, evals |-> acc.evals,
              sessionData |-> sessionData]
        ELSE [decision |-> defaultDecision, clock |-> acc.clock, evals |-> acc.evals,
              sessionData |-> sessionData]

\* ------------------------------------------------------------ utils/rag.ts on its own
\* rag is one call of a function of utils/rag.ts: the arguments it is given
\* and, once it has returned, its result.
VARIABLES rag

NoAssessment == [threw |-> FALSE, level |-> <<>>, score |-> 0]
NoReply == [kind |-> "none", content |-> <<>>]

RagQueries == {"q1"}
RagDocuments == {<<>>, <<"v1", "v2">>}
RagMessageIndexes == {0, MaxHistoryLen - MAX_CONTEXT_AGE, MaxHistoryLen}
RagTimestamps == {0, 1}
RagStartTimes == {STALE_MS, STALE_MS + 1}
RagCallTimes == {0, 1}
RagMessage == [role |-> "user", content |-> "m"]

RagEntries ==
    [query : RagQueries, documents : RagDocuments,
     timestamp : RagTimestamps, messageIndex : RagMessageIndexes]

RagInit ==
    rag = [op |-> "arguments",
           sessionData |-> [history |-> <<>>, retrievalHistory |-> <<>>],
           after |-> [history |-> <<>>, retrievalHistory |-> <<>>],
           now0 |-> 0, replies |-> <<>>, decision |-> defaultDecision,
           clock |-> 0, evals |-> <<>>,
           reply |-> NoReply, assessment |-> NoAssessment]

\* The caller builds the session state: the recorded conversation.
RagAddMessages ==
    /\ rag.op = "arguments"
    /\ rag.sessionData.history = <<>>
    /\ rag' = [rag EXCEPT !.sessionData.history = [i \in 1..MaxHistoryLen |-> RagMessage]]

\* The caller builds the session state: one more retrieval entry.
RagAddEntry ==
    /\ rag.op = "arguments"
    /\ Len(rag.sessionData.retrievalHistory) < MaxEntries
    /\ \E e \in RagEntries :
          rag' = [rag EXCEPT !.sessionData.retrievalHistory = Append(@, e)]

\* A call of shouldRetrieveDocuments on the session state built so far.
RagDecide ==
    /\ rag.op = "arguments"
    /\ \E now0 \in RagStartTimes, dt \in RagCallTimes,
          replies \in [1..Len(rag.sessionData.retrievalHistory) -> LoopReplies] :
          LET out == shouldRetrieveDocuments(rag.sessionData, now0, replies,
                        [i \in 1..Len(rag.sessionData.retrievalHistory) |-> dt])
          IN  rag' = [rag EXCEPT !.op = "shouldRetrieveDocuments",
                                 !.after = out.sessionData,
                                 !.now0 = now0,
                                 !.replies = replies,
                                 !.decision = out.decision,
                                 !.clock = out.clock,
                                 !.evals = out.evals]

\* A call of assessAnswerConfidence, with every behaviour of the chat model.
RagAssess ==
    /\ rag.op = "arguments"
    /\ rag.sessionData.retrievalHistory = <<>>
    /\ \E reply \in ModelReplies :
          rag' = [rag EXCEPT !.op = "assessAnswerConfidence",
                             !.reply = reply,
                             !.assessment = assessAnswerConfidence(reply)]

RagNext == RagAddMessages \/ RagAddEntry \/ RagDecide \/ RagAssess

\* ------------------------------------------------------------ utils/openai.ts, generateStreamResponse
VARIABLES call    \* one call of generateStreamResponse and the callbacks it has made

\* Reads of the response body in one call.
MaxChunks == 3

\* What fetch gives: a response with a body, or one of its failures.
FetchOutcomes == {"ok", "network_error", "http_error", "no_body"}

\* What one read gives: a complete line "data: {...}" with a token, with no
\* content or with bad JSON, a line that is no data line, the line
\* "data: [DONE]", the same line with no newline after it before the body
\* ends, a failed read, the end of the body.
ReadEvents == {"token", "empty_token", "malformed", "not_data", "done",
               "done_unterminated", "read_error", "eof"}

CallInit ==
    call = [pc |-> "idle", onTokenThrows |-> FALSE, onCompleteThrows |-> FALSE,
            reads |-> 0, last |-> "none", callbacks |-> <<>>]

\* generateStreamResponse(messages, onToken, onComplete, onError) is called
\* with callbacks that may throw.
CallStart ==
    /\ call.pc = "idle"
    /\ \E onTokenThrows \in BOOLEAN, onCompleteThrows \in BOOLEAN :
          call' = [call EXCEPT !.pc = "fetch", !.onTokenThrows = onTokenThrows,
                               !.onCompleteThrows = onCompleteThrows]

\* The catch block of generateStreamResponse: onError(error), and the call returns.
caught(c, event) ==
    [c EXCEPT !.pc = "returned", !.last = event,
              !.callbacks = Append(@, "error")]

\* await fetch(...); the tests of response.ok and response.body.
CallFetch ==
    /\ call.pc = "fetch"
    /\ \E outcome \in FetchOutcomes :
          call' = IF outcome = "ok"
                  THEN [call EXCEPT !.pc = "reading", !.last = outcome]
                  ELSE caught(call, outcome)

\* One line of the body as the loop handles it. A throw of onToken is caught
\* by the catch block around JSON.parse; a throw of onComplete reaches the
\* outer catch block; the end of the body leaves the loop and the function.
handleRead(c, event) ==
    LET read == [c EXCEPT !.reads = @ + 1, !.last = event]
    IN  CASE event = "token" -> [read EXCEPT !.callbacks = Append(@, "token")]
          [] event \in {"empty_token", "malformed", "not_data"} -> read
          [] event = "done" ->
                IF c.onCompleteThrows
                THEN caught([read EXCEPT !.callbacks = Append(@, "complete")], event)
                ELSE [read EXCEPT !.pc = "returned", !.callbacks = Append(@, "complete")]
          [] event = "read_error" -> caught(read, event)
          [] OTHER -> [read EXCEPT !.pc = "returned"]

\* const { value, done } = await reader.read() and the lines it completes.
CallRead ==
    /\ call.pc = "reading"
    /\ \E event \in ReadEvents :
          /\ call.reads + 1 >= MaxChunks =>
                event \in {"done", "done_unterminated", "read_error", "eof"}
          /\ call' = handleRead(call, event)

CallNext == CallStart \/ CallFetch \/ CallRead

\* ------------------------------------------------------------ the server's state
VARIABLES
    route,        \* which version of routes/chat.ts the build has: "json" or "stream"
    server,       \* main(): phase "starting", "redis_ready", "listening" or "exited",
                  \* and whether routes/chat.ts has its vectorStore and openaiChat
    now,          \* Date.now()
    redisClient,  \* utils/session.ts: TRUE while the module's redisClient is not null
    redis,        \* the value Redis holds under session:<id>, with its expiry
    mem,          \* inMemorySessions.get(<id>)
    db,           \* the Message rows of the session, in timestamp order
    pending,      \* createMany calls of saveMessagesToDb that have not settled
    served,       \* number of chat requests received
    faults,       \* number of failures of Redis, the database, the index, the chat model
    req,          \* the chat requests: position in the handler and locals
    sessionRow,   \* TRUE while the Session table has the row of the session
    del           \* the DELETE /session/:sessionId request: position and response

vars == <<rag, call, route, server, now, redisClient, redis, mem, db, pending, served, faults, req,
          sessionRow, del>>
serverVars == <<route, server, now, redisClient, redis, mem, db, pending, served, faults, req,
                sessionRow, del>>

\* Chat requests received in one behaviour: one more than the retrieval
\* history holds, so that a request can find the history full.
MaxRequests == MAX_RETRIEVAL_HISTORY + 1
\* Failures of a collaborator (a Redis command or connection, a database call,
\* the index query, the answer generation) in one behaviour.
MaxFaults == 1
\* The clock advances in steps of TickMs up to MaxNow.
TickMs == 300001
MaxNow == 300001
\* saveSessionData's default ttl, 3600 s, in ms.
SESSION_TTL_MS == 3600000

\* The chat requests of a client that sends a message when it has the answer
\* to the one before, and those of two clients on the same session id.
Reqs == {"r1"}
RaceReqs == {"r1", "r2"}
Queries == {"q1"}
\* req.body.query when it is missing
NoQuery == ""
\* req.body.sessionId, and what it is when it is missing
SessionIds == {"s1"}
NoSessionId == ""

\* A validation that looks at the query only.
invalidBodyQueryOnly(query, sessionId) == query = NoQuery

\* if (!query || !sessionId)
invalidBody(query, sessionId) == query = NoQuery \/ sessionId = NoSessionId

\* { history: [], retrievalHistory: [] }
EmptySession == [history |-> <<>>, retrievalHistory |-> <<>>]
NoSession == [absent |-> TRUE]

\* new Document({ pageContent, metadata }); cls tells a Document instance from
\* the plain object JSON.parse gives back.
Document(pageContent, type) ==
    [pageContent |-> pageContent, type |-> type, cls |-> "Document"]

\* What vectorStore.similaritySearchWithScore can return (the documents of the
\* [doc, score] pairs), and what the Serper call can return in "organic".
VectorResults == {<<>>, <<Document("v1", "none"), Document("v2", "none")>>}
SerperResults == {<<>>, <<"w1", "w2", "w3", "w4", "w5", "w6">>}

\* JSON.stringify(data), JSON.parse(data): class instances come back as plain
\* objects, everything else of a SessionData as it was.
plainDocument(d) == [d EXCEPT !.cls = "Object"]
plainEntry(e) ==
    [e EXCEPT !.documents = [i \in 1..Len(e.documents) |-> plainDocument(e.documents[i])]]
stringify(data) ==
    [json |-> [history |-> data.history,
               retrievalHistory |->
                  [i \in 1..Len(data.retrievalHistory) |-> plainEntry(data.retrievalHistory[i])]]]
parse(text) == text.json

\* ------------------------------------------------------------ utils/session.ts
\* redisClient.get(key): null once the key has expired.
redisGet ==
    IF redis = NoSession \/ now >= redis.expiresAt THEN NoSession ELSE redis

\* getSessionData(sessionId). fails: the Redis command throws. The result is
\* the session state and whether it is the object the in-memory map holds.
getSessionData(fails) ==
    LET fromMemory == IF mem = NoSession
                      THEN [data |-> EmptySession, shared |-> FALSE]
                      ELSE [data |-> mem, shared |-> TRUE]
    IN  IF redisClient
        THEN IF fails THEN fromMemory
             ELSE IF redisGet = NoSession
                  THEN [data |-> EmptySession, shared |-> FALSE]
                  ELSE [data |-> parse(redisGet.text), shared |-> FALSE]
        ELSE fromMemory

\* saveSessionData(sessionId, data): the new values of redis and mem.
saveSessionData(data, fails) ==
    IF redisClient /\ ~fails
    THEN [redis |-> [text |-> stringify(data), expiresAt |-> now + SESSION_TTL_MS],
          mem |-> mem]
    ELSE [redis |-> redis, mem |-> data]

\* ------------------------------------------------------------ main()
\* A chat request's position in the handler and its locals; read is the value
\* getSessionData returned, as it was at that moment.
IdleReq ==
    [pc |-> "idle", query |-> NoQuery, sessionId |-> NoSessionId,
     sessionData |-> EmptySession, shared |-> FALSE,
     read |-> EmptySession,
     conversationHistory |-> <<>>, decision |-> defaultDecision, ages |-> <<>>,
     relevantDocs |-> <<>>, docsRef |-> 0, context |-> <<>>,
     confidence |-> NoAssessment, aiResponse |-> "", status |-> 0,
     stream |-> "none",
     assessorCalls |-> 0, assessorFailures |-> 0,
     indexQueries |-> 0, webSearches |-> 0, generations |-> 0, saves |-> 0]

\* The module state of utils/session.ts and routes/chat.ts before main() runs.
Boot ==
    /\ RagInit
    /\ CallInit
    /\ server = [phase |-> "starting", vectorStore |-> FALSE, openaiChat |-> FALSE]
    /\ now = 0
    /\ redisClient = FALSE
    /\ redis = NoSession
    /\ mem = NoSession
    /\ db = <<>>
    /\ pending = <<>>
    /\ served = 0
    /\ faults = 0
    /\ req = [r \in Reqs |-> IdleReq]
    /\ sessionRow = TRUE
    /\ del = [pc |-> "idle", status |-> 0, hadMessages |-> FALSE, hadEpisodes |-> FALSE]

Routes == {"json", "stream"}

Init == Boot /\ route = "json"
InitStream == Boot /\ route = "stream"
InitBoth == Boot /\ route \in Routes

\* await initializeRedis(): connected, or the in-memory fallback.
InitializeRedis ==
    /\ server.phase = "starting"
    /\ \E connected \in BOOLEAN : redisClient' = connected
    /\ server' = [server EXCEPT !.phase = "redis_ready"]
    /\ UNCHANGED <<rag, call, route, now, redis, mem, db, pending, served, faults, req, sessionRow, del>>

\* A main() that logs the failure of the initialisation and listens all the same.
mainListensAnyway(hasKey, hasStore) ==
    [phase |-> "listening", vectorStore |-> hasKey /\ hasStore, openaiChat |-> hasKey]

\* await initializeVectorStoreAndOpenAI() in main(): without OPENAI_API_KEY it
\* throws before anything is set; without ./faiss_store it throws with
\* openaiChat set and vectorStore null; main() then calls process.exit(1).
\* Otherwise both are set and main() calls app.listen.
main(hasKey, hasStore) ==
    [phase |-> IF hasKey /\ hasStore THEN "listening" ELSE "exited",
     vectorStore |-> hasKey /\ hasStore, openaiChat |-> hasKey]

InitializeVectorStoreAndOpenAI ==
    /\ server.phase = "redis_ready"
    /\ \E hasKey \in BOOLEAN, hasStore \in BOOLEAN : server' = main(hasKey, hasStore)
    /\ UNCHANGED <<rag, call, route, now, redisClient, redis, mem, db, pending, served, faults, req, sessionRow, del>>

\* A collaborator fails, within the number of failures of one behaviour.
Fault(fails) ==
    /\ fails => faults < MaxFaults
    /\ faults' = IF fails THEN faults + 1 ELSE faults

\* redisClient.on("error"): the client is dropped for good. The handlers read
\* redisClient in getSessionData and in saveSessionData only, so the event is
\* placed right before either of the two.
RedisError ==
    /\ server.phase = "listening"
    /\ redisClient
    /\ \E r \in DOMAIN req :
          \/ req[r].pc \in {"getSessionData", "save"}
          \/ route = "stream" /\ req[r].pc = "generate"
    /\ redisClient' = FALSE
    /\ Fault(TRUE)
    /\ UNCHANGED <<rag, call, route, server, now, redis, mem, db, pending, served, req, sessionRow, del>>

\* Time passes between two requests. The handlers read the clock after
\* getSessionData only, so the time that passed since the previous request is
\* added when the next one has arrived.
Tick ==
    /\ server.phase = "listening"
    /\ \A r \in DOMAIN req : req[r].pc = "getSessionData"
    /\ now + TickMs <= MaxNow
    /\ now' = now + TickMs
    /\ UNCHANGED <<rag, call, route, server, redisClient, redis, mem, db, pending, served, faults, req, sessionRow, del>>

\* A saveMessagesToDb whose failed write stays to be tried again.
createManyRetried(ok) ==
    [db |-> IF ok THEN db \o Head(pending) ELSE db,
     pending |-> IF ok THEN Tail(pending) ELSE pending]

\* The promise of prisma.message.createMany settles: the two rows are
\* written, or the .catch logs the error and that is all.
createManySettles(ok) ==
    [db |-> IF ok THEN db \o Head(pending) ELSE db, pending |-> Tail(pending)]

\* A createMany of saveMessagesToDb settles; it fails when the Session row
\* that Message_sessionId_fkey refers to is not there. The handler does not
\* await it: it settles while the JSON handler awaits saveSessionData, or
\* later. Nothing reads the rows before the findMany of the next request, so
\* a later settling is placed between the arrival of that request and its
\* first read.
DbWriteSettles ==
    /\ pending # <<>>
    /\ \E r \in DOMAIN req : req[r].pc \in {"getSessionData", "save"}
    /\ \E ok \in BOOLEAN :
          /\ ok => sessionRow
          /\ Fault(~ok /\ sessionRow)
          /\ db' = createManySettles(ok).db
          /\ pending' = createManySettles(ok).pending
    /\ UNCHANGED <<rag, call, route, server, now, redisClient, redis, mem, served, req, sessionRow, del>>

\* ------------------------------------------------------------ routes/chat.ts, shared parts
\* relevantDocs.map((doc, i) => `Document ${i + 1}: ${doc.pageContent}`).join("\n\n")
documentsContext(docs) ==
    join([i \in 1..Len(docs) |-> <<"Document ", i, ": ", docs[i].pageContent>>], "\n\n")

\* webDocs.map((doc, i) => `Web Result ${i + 1}: ${doc.pageContent}`).join("\n\n")
webContext(webDocs) ==
    join([i \in 1..Len(webDocs) |-> <<"Web Result ", i, ": ", webDocs[i].pageContent>>], "\n\n")

\* `[Web Search Results]\n${webContext}\n\n[Original Retrieved Documents]\n${context}`
augmentedContext(webDocs, context) ==
    <<"[Web Search Results]\n">> \o webContext(webDocs)
        \o <<"\n\n[Original Retrieved Documents]\n">> \o context

\* A web search that keeps every result.
performWebSearchNoCap(hasKey, fails, organic) ==
    IF ~hasKey \/ fails \/ Len(organic) = 0 THEN <<>>
    ELSE [i \in 1..Len(organic) |-> Document(organic[i], "web_search")]

\* performWebSearch(query): no key, a failed call and an empty "organic" all
\* give []; otherwise the first five results as Documents of type web_search.
performWebSearch(hasKey, fails, organic) ==
    IF ~hasKey \/ fails \/ Len(organic) = 0 THEN <<>>
    ELSE LET top == SubSeq(organic, 1, IF Len(organic) < 5 THEN Len(organic) ELSE 5)
         IN  [i \in 1..Len(top) |-> Document(top[i], "web_search")]

\* The user and the assistant row of saveMessagesToDb.
messagePair(userContent, assistantContent) ==
    << [role |-> "user", content |-> userContent],
       [role |-> "assistant", content |-> assistantContent] >>

\* The locals of request r after an assignment; a change of the session state
\* is a change of the in-memory map's object when the two are one object.
Set(r, fields) == [req EXCEPT ![r] = fields @@ @]
memAfter(r, sessionData) == IF req[r].shared THEN sessionData ELSE mem

\* The position of an entry after retrievalHistory.shift(): the first entry
\* is out of the array (0), the others move down by one.
shiftRef(docsRef) == IF docsRef <= 1 THEN 0 ELSE docsRef - 1

\* The locals of all requests after request r changed its retrievalHistory
\* array to retrievalHistory (shifted: the first entry was shifted out; at,
\* webDocs: the documents array of entry at got webDocs at its head). A
\* request that holds the same array, the one of the in-memory map, sees the
\* change; its relevantDocs is the same documents array when it points at the
\* same entry.
SetAll(r, fields, retrievalHistory, shifted, at, webDocs) ==
    [q \in DOMAIN req |->
        IF q = r THEN fields @@ req[r]
        ELSE IF req[r].shared /\ req[q].shared
        THEN [req[q] EXCEPT
                 !.sessionData.retrievalHistory = retrievalHistory,
                 !.docsRef = IF shifted THEN shiftRef(@) ELSE @,
                 !.relevantDocs = IF at > 0 /\ req[q].docsRef = at
                                  THEN webDocs \o @ ELSE @]
        ELSE req[q]]

\* res.status(code).json(...) / res.json(...)
Respond(r, code) == req' = Set(r, [pc |-> "done", status |-> code])

\* A request can arrive: the server listens and the client has had the answer
\* to its previous message.
CanReceive(r) ==
    /\ server.phase = "listening"
    /\ req[r].pc \in {"idle", "done"}
    /\ served < MaxRequests

\* The rows of the previous exchange have been written or lost when the
\* handler starts to read the session.
Settled == pending = <<>>

\* ------------------------------------------------------------ routes/chat.ts, the JSON handler
\* chatRouter.post("/"): the request arrives and is validated; 503 while
\* vectorStore or openaiChat is not set.
JsonReceive(r) ==
    /\ CanReceive(r)
    /\ served' = served + 1
    /\ \E query \in Queries \cup {NoQuery}, sessionId \in SessionIds \cup {NoSessionId} :
          LET body == [query |-> query, sessionId |-> sessionId]
          IN  IF invalidBody(query, sessionId)
              THEN req' = [req EXCEPT ![r] =
                              [pc |-> "done", status |-> 400] @@ body @@ IdleReq]
              ELSE IF ~server.vectorStore \/ ~server.openaiChat
              THEN req' = [req EXCEPT ![r] =
                              [pc |-> "done", status |-> 503] @@ body @@ IdleReq]
              ELSE req' = [req EXCEPT ![r] =
                              [pc |-> "getSessionData"] @@ body @@ IdleReq]
    /\ UNCHANGED <<rag, call, route, server, now, redisClient, redis, mem, db, pending, faults, sessionRow, del>>

\* const sessionData = await getSessionData(sessionId)
JsonGetSessionData(r) ==
    /\ req[r].pc = "getSessionData"
    /\ Settled
    /\ \E fails \in BOOLEAN :
          /\ fails => redisClient
          /\ Fault(fails)
          /\ LET got == getSessionData(fails)
             IN  req' = Set(r, [pc |-> "findMany", sessionData |-> got.data,
                                shared |-> got.shared, read |-> got.data])
    /\ UNCHANGED <<rag, call, route, server, now, redisClient, redis, mem, db, pending, served, sessionRow, del>>

\* const dbHistory = await prisma.message.findMany(...); conversationHistory
JsonFindMany(r) ==
    /\ req[r].pc = "findMany"
    /\ \E fails \in BOOLEAN :
          /\ Fault(fails)
          /\ IF fails
             THEN Respond(r, 500)
             ELSE req' = Set(r, [pc |-> "decide", conversationHistory |-> db])
    /\ UNCHANGED <<rag, call, route, server, now, redisClient, redis, mem, db, pending, served, sessionRow, del>>

\* The messagesSinceRetrieval that the loop computed for each entry.
agesOf(evals) == [i \in 1..Len(evals) |-> evals[i].messagesSinceRetrieval]

\* const decision = await shouldRetrieveDocuments(query, sessionData, openaiChat);
\* on the cached branch relevantDocs is decision.cachedDocs, the documents
\* array of the chosen entry itself.
JsonDecide(r) ==
    /\ req[r].pc = "decide"
    /\ \E replies \in [1..Len(req[r].sessionData.retrievalHistory) -> LoopReplies] :
          LET n == Len(req[r].sessionData.retrievalHistory)
              out == shouldRetrieveDocuments(req[r].sessionData, now, replies,
                                             [i \in 1..n |-> 0])
              d == out.decision
              calls == [assessorCalls |-> Cardinality({i \in 1..n : out.evals[i].called}),
                        assessorFailures |->
                           Cardinality({i \in 1..n : out.evals[i].called
                                                      /\ callFails(replies[i])})]
          IN  /\ IF d.shouldRetrieve
                 THEN req' = Set(r, [pc |-> "retrieve", decision |-> d,
                                     sessionData |-> out.sessionData,
                                     ages |-> agesOf(out.evals)] @@ calls)
                 ELSE req' = Set(r, [pc |-> "assess", decision |-> d,
                                     sessionData |-> out.sessionData,
                                     ages |-> agesOf(out.evals),
                                     relevantDocs |-> d.cachedDocs,
                                     docsRef |-> d.cachedRef,
                                     context |-> documentsContext(d.cachedDocs)] @@ calls)
              /\ mem' = memAfter(r, out.sessionData)
    /\ UNCHANGED <<rag, call, route, server, now, redisClient, redis, db, pending, served, faults, sessionRow, del>>

\* A push that makes room by dropping the newest of the old entries.
pushEntryKeepOldest(retrievalHistory, entry) ==
    LET pushed == Append(retrievalHistory, entry)
    IN  IF Len(pushed) > MAX_RETRIEVAL_HISTORY
        THEN SubSeq(retrievalHistory, 1, MAX_RETRIEVAL_HISTORY - 1) \o <<entry>>
        ELSE pushed

\* sessionData.retrievalHistory.push({...}); if (length > MAX) shift()
pushEntry(retrievalHistory, entry) ==
    LET pushed == Append(retrievalHistory, entry)
    IN  IF Len(pushed) > MAX_RETRIEVAL_HISTORY THEN Tail(pushed) ELSE pushed

\* The retrieval branch: the index query, the context, the new entry. The
\* entry's documents array is relevantDocs itself.
JsonRetrieve(r) ==
    /\ req[r].pc = "retrieve"
    /\ \E fails \in BOOLEAN, docs \in VectorResults :
          /\ Fault(fails)
          /\ IF fails
             THEN /\ docs = <<>>
                  /\ req' = Set(r, [pc |-> "done", status |-> 500,
                                    indexQueries |-> req[r].indexQueries + 1])
                  /\ mem' = mem
             ELSE LET history == pushEntry(req[r].sessionData.retrievalHistory,
                                    [query |-> req[r].query, documents |-> docs,
                                     timestamp |-> now,
                                     messageIndex |-> Len(req[r].conversationHistory)])
                      sessionData == [req[r].sessionData EXCEPT !.retrievalHistory = history]
                  IN  /\ req' = SetAll(r, [pc |-> "assess", sessionData |-> sessionData,
                                           relevantDocs |-> docs, docsRef |-> Len(history),
                                           context |-> documentsContext(docs),
                                           indexQueries |-> req[r].indexQueries + 1],
                                       history,
                                       Len(req[r].sessionData.retrievalHistory)
                                          >= MAX_RETRIEVAL_HISTORY,
                                       0, <<>>)
                      /\ mem' = memAfter(r, sessionData)
    /\ UNCHANGED <<rag, call, route, server, now, redisClient, redis, db, pending, served, sessionRow, del>>

\* A gate that also opens at the threshold.
atOrBelowThreshold(score) == score <= CONFIDENCE_THRESHOLD

\* if (confidence.score < RETRIEVAL_CONFIG.CONFIDENCE_THRESHOLD)
belowThreshold(score) == score < CONFIDENCE_THRESHOLD

\* const confidence = await assessAnswerConfidence(query, context, openaiChat),
\* inside the handler's try block.
JsonAssess(r) ==
    /\ req[r].pc = "assess"
    /\ \E reply \in LoopReplies :
          LET confidence == assessAnswerConfidence(reply)
          IN  IF confidence.threw
              THEN Respond(r, 500)
              ELSE req' = Set(r, [pc |-> IF belowThreshold(confidence.score)
                                         THEN "webSearch" ELSE "generate",
                                  confidence |-> confidence,
                                  assessorCalls |-> req[r].assessorCalls + 1,
                                  assessorFailures |-> req[r].assessorFailures
                                      + IF callFails(reply) THEN 1 ELSE 0])
    /\ UNCHANGED <<rag, call, route, server, now, redisClient, redis, mem, db, pending, served, faults, sessionRow, del>>

\* A handler that asks the web again when the search gave nothing.
afterWebSearchRetry(webDocs) == IF Len(webDocs) = 0 THEN "webSearch" ELSE "generate"

\* A handler that gives up when the web search gave nothing.
afterWebSearchAbort(webDocs) == IF Len(webDocs) = 0 THEN "done" ELSE "generate"

\* Past the web search the handler goes on to the answer, with or without
\* web documents.
afterWebSearch(webDocs) == "generate"

\* relevantDocs.unshift(...webDocs): the documents array of the entry that
\* relevantDocs is (docsRef) gets the web documents too.
unshiftDocs(sessionData, docsRef, webDocs) ==
    IF docsRef = 0 \/ docsRef > Len(sessionData.retrievalHistory) THEN sessionData
    ELSE [sessionData EXCEPT !.retrievalHistory[docsRef].documents = webDocs \o @]

\* const webDocs = await performWebSearch(query); if (webDocs.length > 0) ...
JsonWebSearch(r) ==
    /\ req[r].pc = "webSearch"
    /\ \E hasKey \in BOOLEAN, fails \in BOOLEAN, organic \in SerperResults :
          /\ (~hasKey \/ fails) => organic = <<>>
          /\ ~hasKey => ~fails
          /\ LET webDocs == performWebSearch(hasKey, fails, organic)
                 sessionData == unshiftDocs(req[r].sessionData, req[r].docsRef, webDocs)
             IN  IF Len(webDocs) > 0
                 THEN /\ req' = SetAll(r, [pc |-> afterWebSearch(webDocs),
                                           context |-> augmentedContext(webDocs, req[r].context),
                                           relevantDocs |-> webDocs \o req[r].relevantDocs,
                                           sessionData |-> sessionData,
                                           webSearches |-> req[r].webSearches + 1],
                                       sessionData.retrievalHistory, FALSE,
                                       req[r].docsRef, webDocs)
                      /\ mem' = memAfter(r, sessionData)
                 ELSE /\ req' = Set(r, [pc |-> afterWebSearch(webDocs),
                                        webSearches |-> req[r].webSearches
                                                        + IF hasKey THEN 1 ELSE 0])
                      /\ mem' = mem
    /\ UNCHANGED <<rag, call, route, server, now, redisClient, redis, db, pending, served, faults, sessionRow, del>>

\* const aiResponse = await generateChatResponse(...); saveMessagesToDb(...)
JsonGenerate(r) ==
    /\ req[r].pc = "generate"
    /\ \E fails \in BOOLEAN :
          /\ Fault(fails)
          /\ IF fails
             THEN /\ req' = Set(r, [pc |-> "done", status |-> 500,
                                    generations |-> req[r].generations + 1])
                  /\ pending' = pending
             ELSE /\ req' = Set(r, [pc |-> "save", aiResponse |-> "answer",
                                    generations |-> req[r].generations + 1])
                  /\ pending' = Append(pending, messagePair(req[r].query, "answer"))
    /\ UNCHANGED <<rag, call, route, server, now, redisClient, redis, mem, db, served, sessionRow, del>>

\* await saveSessionData(sessionId, {...sessionData, history: []}); res.json(...)
\* The object saved is a new one with the retrievalHistory array of
\* sessionData: when it goes to the in-memory map, another request still holds
\* the map's array only if this request held it.
JsonSave(r) ==
    /\ req[r].pc = "save"
    /\ \E fails \in BOOLEAN :
          /\ fails => redisClient
          /\ Fault(fails)
          /\ LET saved == saveSessionData([req[r].sessionData EXCEPT !.history = <<>>], fails)
             IN  /\ redis' = saved.redis
                 /\ mem' = saved.mem
                 /\ req' = [q \in DOMAIN req |->
                               IF q = r
                               THEN [pc |-> "done", status |-> 200,
                                     saves |-> req[r].saves + 1] @@ req[r]
                               ELSE IF redisClient /\ ~fails THEN req[q]
                               ELSE [req[q] EXCEPT !.shared = @ /\ req[r].shared]]
    /\ UNCHANGED <<rag, call, route, server, now, redisClient, db, pending, served, sessionRow, del>>

JsonHandler(r) ==
    \/ JsonReceive(r) \/ JsonGetSessionData(r) \/ JsonFindMany(r) \/ JsonDecide(r)
    \/ JsonRetrieve(r) \/ JsonAssess(r) \/ JsonWebSearch(r) \/ JsonGenerate(r)
    \/ JsonSave(r)

\* ------------------------------------------------------------ routes/chat.ts, the streaming handler
\* What generateStreamResponse can see of the model's stream: "done" is a
\* data: [DONE] line, "error" a failed fetch, status or read, "eof" the end of
\* the body with no [DONE] line; tokens is what onToken got before that.
StreamOutcomes == [kind : {"done", "error", "eof"}, tokens : {"", "answer"}]

\* chatRouter.post("/"): the request arrives and is validated; 503 while
\* vectorStore or openaiChat is not set.
StreamReceive(r) ==
    /\ CanReceive(r)
    /\ served' = served + 1
    /\ \E query \in Queries \cup {NoQuery}, sessionId \in SessionIds \cup {NoSessionId} :
          LET body == [query |-> query, sessionId |-> sessionId]
          IN  IF invalidBody(query, sessionId)
              THEN req' = [req EXCEPT ![r] =
                              [pc |-> "done", status |-> 400] @@ body @@ IdleReq]
              ELSE IF ~server.vectorStore \/ ~server.openaiChat
              THEN req' = [req EXCEPT ![r] =
                              [pc |-> "done", status |-> 503] @@ body @@ IdleReq]
              ELSE req' = [req EXCEPT ![r] =
                              [pc |-> "getSessionData"] @@ body @@ IdleReq]
    /\ UNCHANGED <<rag, call, route, server, now, redisClient, redis, mem, db, pending, faults, sessionRow, del>>

\* const sessionData = await getSessionData(sessionId); the stored history is
\* the conversation when it has messages.
StreamGetSessionData(r) ==
    /\ req[r].pc = "getSessionData"
    /\ Settled
    /\ \E fails \in BOOLEAN :
          /\ fails => redisClient
          /\ Fault(fails)
          /\ LET got == getSessionData(fails)
             IN  IF Len(got.data.history) > 0
                 THEN req' = Set(r, [pc |-> "decide", sessionData |-> got.data,
                                     shared |-> got.shared, read |-> got.data,
                                     conversationHistory |-> got.data.history])
                 ELSE req' = Set(r, [pc |-> "findMany", sessionData |-> got.data,
                                     shared |-> got.shared, read |-> got.data])
    /\ UNCHANGED <<rag, call, route, server, now, redisClient, redis, mem, db, pending, served, sessionRow, del>>

\* const dbHistory = await prisma.message.findMany(...);
\* sessionData.history = conversationHistory
StreamFindMany(r) ==
    /\ req[r].pc = "findMany"
    /\ \E fails \in BOOLEAN :
          /\ Fault(fails)
          /\ IF fails
             THEN /\ Respond(r, 500)
                  /\ mem' = mem
             ELSE LET sessionData == [req[r].sessionData EXCEPT !.history = db]
                  IN  /\ req' = Set(r, [pc |-> "decide", conversationHistory |-> db,
                                        sessionData |-> sessionData])
                      /\ mem' = memAfter(r, sessionData)
    /\ UNCHANGED <<rag, call, route, server, now, redisClient, redis, db, pending, served, sessionRow, del>>

\* const decision = await shouldRetrieveDocuments(query, sessionData, openaiChat)
StreamDecide(r) ==
    /\ req[r].pc = "decide"
    /\ \E replies \in [1..Len(req[r].sessionData.retrievalHistory) -> LoopReplies] :
          LET n == Len(req[r].sessionData.retrievalHistory)
              out == shouldRetrieveDocuments(req[r].sessionData, now, replies,
                                             [i \in 1..n |-> 0])
              d == out.decision
              calls == [assessorCalls |-> Cardinality({i \in 1..n : out.evals[i].called}),
                        assessorFailures |->
                           Cardinality({i \in 1..n : out.evals[i].called
                                                      /\ callFails(replies[i])})]
          IN  /\ IF d.shouldRetrieve
                 THEN req' = Set(r, [pc |-> "retrieve", decision |-> d,
                                     sessionData |-> out.sessionData,
                                     ages |-> agesOf(out.evals)] @@ calls)
                 ELSE req' = Set(r, [pc |-> "assess", decision |-> d,
                                     sessionData |-> out.sessionData,
                                     ages |-> agesOf(out.evals),
                                     relevantDocs |-> d.cachedDocs,
                                     docsRef |-> d.cachedRef,
                                     context |-> documentsContext(d.cachedDocs)] @@ calls)
              /\ mem' = memAfter(r, out.sessionData)
    /\ UNCHANGED <<rag, call, route, server, now, redisClient, redis, db, pending, served, faults, sessionRow, del>>

\* The retrieval branch: the index query and the context; no entry yet.
StreamRetrieve(r) ==
    /\ req[r].pc = "retrieve"
    /\ \E fails \in BOOLEAN, docs \in VectorResults :
          /\ Fault(fails)
          /\ IF fails
             THEN /\ docs = <<>>
                  /\ req' = Set(r, [pc |-> "done", status |-> 500,
                                    indexQueries |-> req[r].indexQueries + 1])
             ELSE req' = Set(r, [pc |-> "assess", relevantDocs |-> docs, docsRef |-> 0,
                                 context |-> documentsContext(docs),
                                 indexQueries |-> req[r].indexQueries + 1])
    /\ UNCHANGED <<rag, call, route, server, now, redisClient, redis, mem, db, pending, served, sessionRow, del>>

\* const confidence = await assessAnswerConfidence(query, context, openaiChat),
\* inside the handler's try block, before the headers are sent.
StreamAssess(r) ==
    /\ req[r].pc = "assess"
    /\ \E reply \in LoopReplies :
          LET confidence == assessAnswerConfidence(reply)
          IN  IF confidence.threw
              THEN Respond(r, 500)
              ELSE req' = Set(r, [pc |-> IF belowThreshold(confidence.score)
                                         THEN "webSearch" ELSE "generate",
                                  confidence |-> confidence,
                                  assessorCalls |-> req[r].assessorCalls + 1,
                                  assessorFailures |-> req[r].assessorFailures
                                      + IF callFails(reply) THEN 1 ELSE 0])
    /\ UNCHANGED <<rag, call, route, server, now, redisClient, redis, mem, db, pending, served, faults, sessionRow, del>>

\* const webDocs = await performWebSearch(query); relevantDocs.unshift(...webDocs)
StreamWebSearch(r) ==
    /\ req[r].pc = "webSearch"
    /\ \E hasKey \in BOOLEAN, fails \in BOOLEAN, organic \in SerperResults :
          /\ (~hasKey \/ fails) => organic = <<>>
          /\ ~hasKey => ~fails
          /\ LET webDocs == performWebSearch(hasKey, fails, organic)
                 sessionData == unshiftDocs(req[r].sessionData, req[r].docsRef, webDocs)
             IN  IF Len(webDocs) > 0
                 THEN /\ req' = Set(r, [pc |-> afterWebSearch(webDocs),
                                        context |-> augmentedContext(webDocs, req[r].context),
                                        relevantDocs |-> webDocs \o req[r].relevantDocs,
                                        sessionData |-> sessionData,
                                        webSearches |-> req[r].webSearches + 1])
                      /\ mem' = memAfter(r, sessionData)
                 ELSE /\ req' = Set(r, [pc |-> afterWebSearch(webDocs),
                                        webSearches |-> req[r].webSearches
                                                        + IF hasKey THEN 1 ELSE 0])
                      /\ mem' = mem
    /\ UNCHANGED <<rag, call, route, server, now, redisClient, redis, db, pending, served, faults, sessionRow, del>>

\* An onComplete that records an episode whatever the decision was.
completedAlwaysPush(r, fullResponse) ==
    LET conversationHistory ==
            req[r].conversationHistory \o messagePair(req[r].query, fullResponse)
        entry == [query |-> req[r].query, documents |-> req[r].relevantDocs,
                  timestamp |-> now,
                  messageIndex |-> Len(conversationHistory) - 2]
    IN  [history |-> conversationHistory,
         retrievalHistory |-> Append(req[r].sessionData.retrievalHistory, entry)]

\* An onComplete that takes the episode's messageIndex after the push of the
\* two messages.
completedIndexAfterTurn(r, fullResponse) ==
    LET conversationHistory ==
            req[r].conversationHistory \o messagePair(req[r].query, fullResponse)
        entry == [query |-> req[r].query, documents |-> req[r].relevantDocs,
                  timestamp |-> now,
                  messageIndex |-> Len(conversationHistory)]
        retrievalHistory ==
            IF req[r].decision.shouldRetrieve
            THEN Append(req[r].sessionData.retrievalHistory, entry)
            ELSE req[r].sessionData.retrievalHistory
    IN  [history |-> conversationHistory, retrievalHistory |-> retrievalHistory]

\* The onComplete callback past res.end() when fullResponse is not empty: the
\* two messages, the new entry (pushed with no eviction) and the session state
\* as the callback leaves it.
completed(r, fullResponse) ==
    LET conversationHistory ==
            req[r].conversationHistory \o messagePair(req[r].query, fullResponse)
        entry == [query |-> req[r].query, documents |-> req[r].relevantDocs,
                  timestamp |-> now,
                  messageIndex |-> Len(conversationHistory) - 2]
        retrievalHistory ==
            IF req[r].decision.shouldRetrieve
            THEN Append(req[r].sessionData.retrievalHistory, entry)
            ELSE req[r].sessionData.retrievalHistory
    IN  [history |-> conversationHistory, retrievalHistory |-> retrievalHistory]

\* res.writeHead(200, ...); await openaiChat.generateStreamResponse(...) with
\* its three callbacks. saveSessionData is called and not awaited; saveFails:
\* its Redis command fails and the state goes to the in-memory map.
StreamGenerate(r) ==
    /\ req[r].pc = "generate"
    /\ \E outcome \in StreamOutcomes, saveFails \in BOOLEAN :
          LET complete == outcome.kind = "done" /\ outcome.tokens # ""
              sessionData == completed(r, outcome.tokens)
              saved == saveSessionData(sessionData, saveFails)
          IN  /\ saveFails => (complete /\ redisClient)
              /\ Fault(outcome.kind # "done" \/ saveFails)
              /\ IF complete
                 THEN /\ req' = Set(r, [pc |-> "done", status |-> 200, stream |-> "ended",
                                        aiResponse |-> outcome.tokens,
                                        conversationHistory |-> sessionData.history,
                                        sessionData |-> sessionData,
                                        generations |-> req[r].generations + 1,
                                        saves |-> req[r].saves + 1])
                      /\ pending' = Append(pending, messagePair(req[r].query, outcome.tokens))
                      /\ redis' = saved.redis
                      /\ mem' = IF redisClient /\ ~saveFails
                                THEN memAfter(r, sessionData) ELSE saved.mem
                 ELSE /\ req' = Set(r, [pc |-> "done", status |-> 200,
                                        stream |-> IF outcome.kind = "eof"
                                                   THEN "open" ELSE "ended",
                                        aiResponse |-> outcome.tokens,
                                        generations |-> req[r].generations + 1])
                      /\ UNCHANGED <<pending, redis, mem>>
    /\ UNCHANGED <<rag, call, route, server, now, redisClient, db, served, sessionRow, del>>

StreamHandler(r) ==
    \/ StreamReceive(r) \/ StreamGetSessionData(r) \/ StreamFindMany(r)
    \/ StreamDecide(r) \/ StreamRetrieve(r) \/ StreamAssess(r)
    \/ StreamWebSearch(r) \/ StreamGenerate(r)

Environment ==
    InitializeRedis \/ InitializeVectorStoreAndOpenAI \/ RedisError \/ Tick \/ DbWriteSettles

Next == Environment \/ \E r \in Reqs : JsonHandler(r)

Spec == Init /\ [][Next]_vars

NextStream == Environment \/ \E r \in Reqs : StreamHandler(r)

SpecStream == InitStream /\ [][NextStream]_vars

\* Either version of the handler, as the build has it.
Handler(r) ==
    \/ route = "json" /\ JsonHandler(r)
    \/ route = "stream" /\ StreamHandler(r)

NextBoth == Environment \/ \E r \in Reqs : Handler(r)

SpecBoth == InitBoth /\ [][NextBoth]_vars

\* Two clients on one session id with the JSON handler, and collaborators
\* that do not fail.
InitRace ==
    /\ RagInit
    /\ CallInit
    /\ route = "json"
    /\ server = [phase |-> "starting", vectorStore |-> FALSE, openaiChat |-> FALSE]
    /\ now = 0
    /\ redisClient = FALSE
    /\ redis = NoSession
    /\ mem = NoSession
    /\ db = <<>>
    /\ pending = <<>>
    /\ served = 0
    /\ faults = MaxFaults
    /\ req = [r \in RaceReqs |-> IdleReq]
    /\ sessionRow = TRUE
    /\ del = [pc |-> "idle", status |-> 0, hadMessages |-> FALSE, hadEpisodes |-> FALSE]

NextRace ==
    \/ InitializeRedis \/ InitializeVectorStoreAndOpenAI \/ DbWriteSettles
    \/ \E r \in RaceReqs : JsonHandler(r)

SpecRace == InitRace /\ [][NextRace]_vars

\* ------------------------------------------------------------ routes/session.ts, DELETE /:sessionId
\* clearSessionData(sessionId): redisClient.del(key) with a client, else
\* inMemorySessions.delete(sessionId); the new values of redis and mem.
clearSessionData ==
    IF redisClient THEN [redis |-> NoSession, mem |-> mem]
    ELSE [redis |-> redis, mem |-> NoSession]

\* await prisma.session.delete({ where: { id } }) under
\* Message_sessionId_fkey ... ON DELETE RESTRICT: the row is deleted when it
\* is there and no Message row refers to it; otherwise the call throws.
sessionDelete(rows) == [deleted |-> sessionRow /\ rows = <<>>, rows |-> rows]

\* sessionRouter.delete("/:sessionId") up to the end of its first await.
DeleteSession ==
    /\ server.phase = "listening"
    /\ del.pc = "idle"
    /\ \E fails \in BOOLEAN :
          /\ Fault(fails)
          /\ LET out == sessionDelete(db)
                 had == [hadMessages |-> db # <<>>,
                         hadEpisodes |-> getSessionData(FALSE).data.retrievalHistory # <<>>]
             IN  IF fails \/ ~out.deleted
                 THEN /\ del' = [pc |-> "done", status |-> 500] @@ had
                      /\ UNCHANGED <<sessionRow, db>>
                 ELSE /\ del' = [pc |-> "clear", status |-> 0] @@ had
                      /\ sessionRow' = FALSE
                      /\ db' = out.rows
    /\ UNCHANGED <<rag, call, route, server, now, redisClient, redis, mem, pending, served, req>>

\* await clearSessionData(sessionId); res.json(...). A failed del command
\* throws into the handler's catch. A chat request that holds the object of
\* the in-memory map goes on with an object the map no longer has.
DeleteClear ==
    /\ del.pc = "clear"
    /\ \E fails \in BOOLEAN :
          /\ fails => redisClient
          /\ Fault(fails)
          /\ IF fails
             THEN /\ del' = [del EXCEPT !.pc = "done", !.status = 500]
                  /\ UNCHANGED <<redis, mem, req>>
             ELSE /\ del' = [del EXCEPT !.pc = "done", !.status = 200]
                  /\ redis' = clearSessionData.redis
                  /\ mem' = clearSessionData.mem
                  /\ req' = [r \in DOMAIN req |->
                                IF redisClient THEN req[r]
                                ELSE [req[r] EXCEPT !.shared = FALSE]]
    /\ UNCHANGED <<rag, call, route, server, now, redisClient, db, pending, served, sessionRow>>

NextSession == NextBoth \/ DeleteSession \/ DeleteClear

\* The chat handler together with the DELETE route.
SpecSession == InitBoth /\ [][NextSession]_vars

RagStep == RagNext /\ UNCHANGED <<call, serverVars>>

SpecRag == Init /\ [][RagStep]_vars

CallStep == CallNext /\ UNCHANGED <<rag, serverVars>>

SpecCall == Init /\ [][CallStep]_vars

\* ------------------------------------------------------------ properties of utils/rag.ts
RagDecided == rag.op = "shouldRetrieveDocuments"
RagAssessed == rag.op = "assessAnswerConfidence"
RagHistory == rag.sessionData.retrievalHistory
RagAge(i) == Len(rag.sessionData.history) - RagHistory[i].messageIndex
RagTime(i) == rag.evals[i].at - RagHistory[i].timestamp
RagTurnStale(i) == RagAge(i) > MAX_CONTEXT_AGE
RagTimeStale(i) == RagTime(i) > 300000
RagFresh(i) == ~RagTurnStale(i) /\ ~RagTimeStale(i)
RagReplyScore(i) == assessAnswerConfidence(rag.replies[i]).score

\* C1: an episode whose age in turns is above MAX_CONTEXT_AGE, or whose age in
\* time is above 300000 ms when the loop looks at it, is never the episode whose
\* documents the decision returns as cachedDocs; either bound is enough.
C1_StaleNeverSelected ==
    RagDecided =>
        \A i \in 1..Len(RagHistory) :
            (RagTurnStale(i) \/ RagTimeStale(i)) => rag.decision.cachedRef # i

\* C1 witness: a decision over two episodes, the first too old in turns only,
\* the second too old in time only, both of which the model would rate HIGH.
C1_Witness ==
    /\ RagDecided
    /\ Len(RagHistory) = 2
    /\ RagTurnStale(1) /\ ~RagTimeStale(1)
    /\ RagTimeStale(2) /\ ~RagTurnStale(2)
    /\ RagReplyScore(1) = 90 /\ RagReplyScore(2) = 90
    /\ rag.decision.shouldRetrieve

\* C3: with an empty episode list the decision is shouldRetrieve=true with
\* reason "initial_retrieval", and no assessor call is made.
C3_EmptyHistoryRetrieves ==
    (RagDecided /\ RagHistory = <<>>) =>
        /\ rag.decision.shouldRetrieve = TRUE
        /\ rag.decision.reason = <<"initial_retrieval">>
        /\ rag.evals = <<>>

C3_Witness == RagDecided /\ RagHistory = <<>> /\ Len(rag.sessionData.history) > 0

\* C4: a decision that reuses the cache returns the documents of the fresh
\* episode with the highest score, and of the first such episode when several
\* share that score.
C4_BestFirstSelected ==
    (RagDecided /\ ~rag.decision.shouldRetrieve) =>
        LET b == rag.decision.cachedRef
        IN  /\ b \in 1..Len(RagHistory)
            /\ RagFresh(b)
            /\ rag.decision.cachedDocs = RagHistory[b].documents
            /\ \A j \in 1..Len(RagHistory) :
                  RagFresh(j) => RagReplyScore(j) <= RagReplyScore(b)
            /\ \A j \in 1..(b - 1) :
                  RagFresh(j) => RagReplyScore(j) < RagReplyScore(b)

\* C4 witness: two fresh episodes with different documents share the score 0.9
\* and the first is returned.
C4_Witness ==
    /\ RagDecided /\ ~rag.decision.shouldRetrieve
    /\ Len(RagHistory) = 2
    /\ RagFresh(1) /\ RagFresh(2)
    /\ RagReplyScore(1) = 90 /\ RagReplyScore(2) = 90
    /\ RagHistory[1].documents # RagHistory[2].documents
    /\ rag.decision.cachedRef = 1

\* C5: the decision is shouldRetrieve=false exactly when some fresh episode
\* scores strictly above CONFIDENCE_THRESHOLD; otherwise it is
\* shouldRetrieve=true with reason "initial_retrieval".
C5_ReuseIffAboveThreshold ==
    RagDecided =>
        LET above == \E i \in 1..Len(RagHistory) :
                        RagFresh(i) /\ RagReplyScore(i) > CONFIDENCE_THRESHOLD
        IN  /\ (rag.decision.shouldRetrieve = FALSE) <=> above
            /\ ~above => /\ rag.decision.shouldRetrieve = TRUE
                         /\ rag.decision.reason = <<"initial_retrieval">>

\* C5 witness: the best fresh episode scores exactly the threshold (MEDIUM,
\* 0.7) and the decision is to retrieve.
C5_Witness ==
    /\ RagDecided /\ rag.decision.shouldRetrieve
    /\ \E i \in 1..Len(RagHistory) : RagFresh(i) /\ RagReplyScore(i) = 70
    /\ \A i \in 1..Len(RagHistory) : RagFresh(i) => RagReplyScore(i) <= 70

\* C6: a decision with shouldRetrieve=false carries the document list of one
\* episode of the history and that episode's age in turns; a decision with
\* shouldRetrieve=true carries no documents and cacheAge 0.
C6_DecisionWellFormed ==
    RagDecided =>
        IF rag.decision.shouldRetrieve
        THEN rag.decision.cachedNull /\ rag.decision.cacheAge = 0
        ELSE /\ ~rag.decision.cachedNull
             /\ \E i \in 1..Len(RagHistory) :
                   /\ rag.decision.cachedRef = i
                   /\ rag.decision.cachedDocs = RagHistory[i].documents
                   /\ rag.decision.cacheAge = RagAge(i)

\* C6 witness: a reuse of an episode that is two turns old.
C6_Witness ==
    /\ RagDecided /\ ~rag.decision.shouldRetrieve
    /\ rag.decision.cacheAge = 2

\* C7: assessAnswerConfidence never raises, and when the model call fails
\* (time-out, network error, non-2xx, malformed body) it returns MEDIUM / 0.7.
C7_AssessorFailsOpen ==
    RagAssessed =>
        /\ ~rag.assessment.threw
        /\ rag.reply.kind # "ok" =>
              rag.assessment.level = MEDIUM /\ rag.assessment.score = 70

C7_Witness == RagAssessed /\ rag.reply.kind = "bad_json"

\* C8: the score of an assessment is decided by its level: HIGH 0.9, MEDIUM
\* 0.7, LOW 0.4, any other level 0.7.
C8_ScoreFromLevel ==
    RagAssessed =>
        /\ rag.assessment.level = HIGH => rag.assessment.score = 90
        /\ rag.assessment.level = MEDIUM => rag.assessment.score = 70
        /\ rag.assessment.level = LOW => rag.assessment.score = 40
        /\ rag.assessment.level \notin {HIGH, MEDIUM, LOW} => rag.assessment.score = 70
        /\ rag.assessment.score \in {90, 70, 40}

\* C8 witness: the model answers "Maybe"; the level is unrecognised.
C8_Witness ==
    /\ RagAssessed
    /\ rag.reply = [kind |-> "ok", content |-> <<"M", "a", "y", "b", "e">>]
    /\ rag.assessment.level \notin {HIGH, MEDIUM, LOW}

\* C9: the level of every assessment is one of HIGH, MEDIUM, LOW.
C9_LevelInEnum ==
    RagAssessed => rag.assessment.level \in {HIGH, MEDIUM, LOW}

\* ------------------------------------------------------------ properties of the chat handlers
Decided(r) == req[r].pc \in {"retrieve", "assess", "webSearch", "generate", "save"}
Reusing(r) == Decided(r) /\ ~req[r].decision.shouldRetrieve

\* C2: in the JSON handler the age in turns computed for an episode is the
\* number of conversation messages recorded at the time of the request minus
\* the episode's messageIndex, and an episode created at n messages is never
\* reused by a request made when the conversation has more than
\* n + MAX_CONTEXT_AGE messages.
C2_AgeFromConversation ==
    \A r \in Reqs :
        /\ (req[r].pc = "retrieve" \/ Reusing(r)) =>
              \A i \in 1..Len(req[r].ages) :
                  req[r].ages[i] = Len(req[r].conversationHistory)
                                   - req[r].sessionData.retrievalHistory[i].messageIndex
        /\ Reusing(r) =>
              Len(req[r].conversationHistory)
                 <= req[r].sessionData.retrievalHistory[req[r].decision.cachedRef].messageIndex
                    + MAX_CONTEXT_AGE

\* C10: under both chat handlers the stored retrieval state of the session
\* never holds more than MAX_RETRIEVAL_HISTORY episodes.
C10_StoredHistoryBounded ==
    /\ redis # NoSession => Len(parse(redis.text).retrievalHistory) <= MAX_RETRIEVAL_HISTORY
    /\ mem # NoSession => Len(mem.retrievalHistory) <= MAX_RETRIEVAL_HISTORY

\* C11: a retrieval of the JSON handler that finds MAX_RETRIEVAL_HISTORY
\* episodes leaves MAX_RETRIEVAL_HISTORY episodes: the old ones but the first,
\* in their order, and then the new episode.
C11_EvictsOldest ==
    [][\A r \in Reqs :
          (/\ route = "json"
           /\ req[r].pc = "retrieve"
           /\ req'[r].pc = "assess"
           /\ Len(req[r].sessionData.retrievalHistory) = MAX_RETRIEVAL_HISTORY)
          => LET old == req[r].sessionData.retrievalHistory
                 new == req'[r].sessionData.retrievalHistory
             IN  /\ Len(new) = MAX_RETRIEVAL_HISTORY
                 /\ \A i \in 1..(MAX_RETRIEVAL_HISTORY - 1) : new[i] = old[i + 1]
                 /\ new[MAX_RETRIEVAL_HISTORY].query = req[r].query
                 /\ new[MAX_RETRIEVAL_HISTORY].documents = req'[r].relevantDocs
                 /\ new[MAX_RETRIEVAL_HISTORY].timestamp = now
                 /\ new[MAX_RETRIEVAL_HISTORY].messageIndex
                       = Len(req[r].conversationHistory)]_vars

\* The third request of a session with no failure has retrieved after two
\* requests that retrieved at 0 and at 2 messages: the episode of 0 is gone.
C11_Witness ==
    \E r \in Reqs :
        /\ route = "json" /\ req[r].pc = "assess" /\ faults = 0
        /\ served = MAX_RETRIEVAL_HISTORY + 1
        /\ req[r].docsRef = MAX_RETRIEVAL_HISTORY
        /\ Len(req[r].sessionData.retrievalHistory) = MAX_RETRIEVAL_HISTORY
        /\ \A i \in 1..MAX_RETRIEVAL_HISTORY :
              req[r].sessionData.retrievalHistory[i].messageIndex = 2 * i

\* C12: a chat request, under either handler and on every path, makes at most
\* one query of the vector index and at most one web search.
C12_AtMostOneQueryEach ==
    \A r \in Reqs : req[r].indexQueries <= 1 /\ req[r].webSearches <= 1

\* A request that retrieved, was assessed LOW and searched the web.
C12_Witness ==
    \E r \in Reqs :
        /\ req[r].pc = "generate"
        /\ req[r].indexQueries = 1 /\ req[r].webSearches = 1
        /\ req[r].confidence.level = LOW

\* C13: a request whose decision is shouldRetrieve = false, under either
\* handler, makes no query of the vector index, takes the documents of the
\* chosen episode as its documents, and neither its session state nor what it
\* stores gets an episode more than the session state it read.
C13_ReuseAddsNoEpisode ==
    [][\A r \in Reqs :
          Reusing(r) =>
             LET before == Len(req[r].sessionData.retrievalHistory)
                 chosen == req[r].sessionData.retrievalHistory[req[r].decision.cachedRef]
             IN  /\ req'[r].indexQueries = 0
                 /\ req[r].pc = "assess" =>
                       /\ req[r].relevantDocs = chosen.documents
                       /\ req[r].context = documentsContext(chosen.documents)
                 /\ Len(req'[r].sessionData.retrievalHistory) = before
                 /\ redis' # redis =>
                       Len(parse(redis'.text).retrievalHistory) = before
                 /\ mem' # mem => Len(mem'.retrievalHistory) = before]_vars

\* A request that reused an episode has been answered and has saved the session.
C13_Witness ==
    \E r \in Reqs :
        /\ req[r].pc = "done" /\ req[r].status = 200 /\ req[r].saves = 1
        /\ ~req[r].decision.shouldRetrieve
        /\ req[r].decision.cachedRef >= 1

\* The session state data ends with an episode of query q taken at n messages.
EndsWithEpisode(data, q, n) ==
    /\ data # NoSession
    /\ Len(data.retrievalHistory) >= 1
    /\ data.retrievalHistory[Len(data.retrievalHistory)].query = q
    /\ data.retrievalHistory[Len(data.retrievalHistory)].messageIndex = n

C15_WebSearchIffBelow ==
    [][\A r \in Reqs :
          /\ (req[r].pc = "assess" /\ req'[r].pc # "assess") =>
                /\ req'[r].pc \in {"webSearch", "generate"}
                /\ (req'[r].pc = "webSearch")
                      <=> (req'[r].confidence.score < CONFIDENCE_THRESHOLD)
                /\ (req'[r].pc = "webSearch") <=> (req'[r].confidence.level = LOW)
          /\ req'[r].webSearches > req[r].webSearches =>
                /\ req[r].pc = "webSearch"
                /\ req[r].confidence.score < CONFIDENCE_THRESHOLD]_vars

\* A request that reuses an episode has been assessed LOW and is about to
\* search the web.
C15_Witness ==
    \E r \in Reqs :
        /\ req[r].pc = "webSearch" /\ ~req[r].decision.shouldRetrieve
        /\ req[r].confidence.level = LOW

\* C16: when the web search returns results, the documents of the request
\* become the first results (five at most, in the order of the search, each a
\* Document of type web_search) followed by the documents it had, in their
\* order; the context becomes the "[Web Search Results]" section followed by
\* the "[Original Retrieved Documents]" section holding the former context.
C16_WebDocsFirst ==
    [][\A r \in Reqs :
          (/\ req[r].pc = "webSearch"
           /\ Len(req'[r].relevantDocs) > Len(req[r].relevantDocs))
          => LET docs == req'[r].relevantDocs
                 k == Len(docs) - Len(req[r].relevantDocs)
             IN  /\ k <= 5
                 /\ \E organic \in SerperResults :
                       /\ k = (IF Len(organic) < 5 THEN Len(organic) ELSE 5)
                       /\ \A i \in 1..k :
                             docs[i] = Document(organic[i], "web_search")
                 /\ SubSeq(docs, k + 1, Len(docs)) = req[r].relevantDocs
                 /\ req'[r].context =
                       <<"[Web Search Results]\n">>
                          \o webContext(SubSeq(docs, 1, k))
                          \o <<"\n\n[Original Retrieved Documents]\n">>
                          \o req[r].context]_vars

\* Six results came back for a request that had two documents of the index.
C16_Witness ==
    \E r \in Reqs :
        /\ req[r].pc = "generate" /\ req[r].webSearches = 1
        /\ Len(req[r].relevantDocs) = 7
        /\ req[r].relevantDocs[1].type = "web_search"
        /\ req[r].relevantDocs[7].type = "none"

\* C17: performWebSearch gives the empty list when the key is missing, when
\* the call fails and when the search has no result; the request then goes on
\* to the answer with its context, its documents and its session state as they
\* were, under either handler.
C17_WebSearchFailureSwallowed ==
    [][\A r \in Reqs :
          req[r].pc = "webSearch" /\ req'[r].pc # "webSearch" =>
             /\ \A hasKey \in BOOLEAN, fails \in BOOLEAN, organic \in SerperResults :
                   (~hasKey \/ fails \/ organic = <<>>)
                      => performWebSearch(hasKey, fails, organic) = <<>>
             /\ req'[r].pc = "generate"
             /\ req'[r].status = 0
             /\ Len(req'[r].relevantDocs) = Len(req[r].relevantDocs) =>
                   /\ req'[r].relevantDocs = req[r].relevantDocs
                   /\ req'[r].context = req[r].context
                   /\ req'[r].sessionData = req[r].sessionData
                   /\ mem' = mem /\ redis' = redis]_vars

\* A request assessed LOW has called the search, got nothing and is about to
\* generate the answer from the two documents of the index.
C17_Witness ==
    \E r \in Reqs :
        /\ req[r].pc = "generate" /\ req[r].confidence.level = LOW
        /\ req[r].webSearches = 1
        /\ Len(req[r].relevantDocs) = 2
        /\ req[r].relevantDocs[1].type = "none"

\* C18: under either handler no step of the decision, of the second
\* assessment or of the web search ends the request, whatever the assessor
\* and the search do; a failed query of the index ends it with one 500
\* response and no call of the answer generation; past the read of the
\* history (which is no step of the pipeline) a 500 response comes from the
\* index query or from the answer generation only.
C18_OnlyIndexAndGenerationSurface ==
    [][\A r \in Reqs :
          /\ req[r].pc \in {"decide", "assess", "webSearch"} =>
                req'[r].pc # "done" /\ req'[r].status = 0
          /\ (req[r].pc = "retrieve" /\ req'[r].pc = "done") =>
                /\ req'[r].status = 500
                /\ req'[r].indexQueries = 1
                /\ req'[r].generations = 0
                /\ req'[r].stream = "none"
                /\ req'[r].aiResponse = ""
          /\ (req'[r].status = 500 /\ req[r].status # 500) =>
                req[r].pc \in {"findMany", "retrieve", "generate"}]_vars

\* The second assessment failed (it answers MEDIUM only then) and the request
\* has been answered.
C18_Witness ==
    \E r \in Reqs :
        /\ req[r].pc = "done" /\ req[r].status = 200
        /\ req[r].confidence.level = MEDIUM
        /\ req[r].generations = 1 /\ req[r].aiResponse = "answer"

\* C19: when a call of generateStreamResponse has returned, whatever the
\* upstream stream and the callbacks did, it has called onToken some number of
\* times and then exactly one of onComplete and onError, once, and nothing after.
C19_OneTerminalCallback ==
    call.pc = "returned" =>
       /\ Len(call.callbacks) >= 1
       /\ call.callbacks[Len(call.callbacks)] \in {"complete", "error"}
       /\ \A i \in 1..(Len(call.callbacks) - 1) : call.callbacks[i] = "token"

\* C20: a request that passed validation and whose handler has run to its end
\* has had one terminal outcome: a complete JSON response or an error
\* response, or, once the event stream was opened, the end of that stream.
\* (Nothing ends the response after the handler and its callbacks are over.)
C20_ResponseEnded ==
    \A r \in Reqs :
        (req[r].pc = "done" /\ req[r].status # 400) =>
           /\ req[r].status \in {200, 500}
           /\ req[r].stream # "open"
           /\ (route = "stream" /\ req[r].status = 200) => req[r].stream = "ended"

\* The entries of the session state that request r holds.
Episodes(r) == req[r].sessionData.retrievalHistory

\* C24: an episode with an empty document list is never the one whose
\* documents a reuse decision hands back, and no episode with an empty
\* document list is ever in the session state a handler works on.
C24_NoEmptyEpisode ==
    \A r \in Reqs :
        /\ Reusing(r) => req[r].decision.cachedDocs # <<>>
        /\ \A i \in 1..Len(Episodes(r)) : Episodes(r)[i].documents # <<>>

\* What the two stores hold for the session: the parsed Redis value (expired
\* or not) and the object of the in-memory map.
StoredInRedis == IF redis = NoSession THEN EmptySession ELSE parse(redis.text)
StoredInMemory == IF mem = NoSession THEN EmptySession ELSE mem

HasWebDoc(entry) ==
    \E j \in 1..Len(entry.documents) : entry.documents[j].type = "web_search"

\* C26: a stored episode holds the documents the vector index returned and
\* nothing else: no document of type web_search is part of an episode that
\* Redis or the in-memory map holds.
C26_NoWebDocStored ==
    \A data \in {StoredInRedis, StoredInMemory} :
        \A i \in 1..Len(data.retrievalHistory) : ~HasWebDoc(data.retrievalHistory[i])

pageContents(docs) == [j \in 1..Len(docs) |-> docs[j].pageContent]

\* The episode list a getSessionData would return now.
StoredEpisodes == getSessionData(FALSE).data.retrievalHistory

\* C27: when a request that reuses a cached episode ends, the stored session
\* state holds that episode with the document list the decision found in it,
\* whether or not the request went through a web search.
C27_ReuseLeavesEpisode ==
    [][\A r \in Reqs :
          (Reusing(r) /\ req'[r].pc = "done") =>
              LET k == req[r].decision.cachedRef
              IN  k <= Len(StoredEpisodes') =>
                     pageContents(StoredEpisodes'[k].documents)
                        = pageContents(req[r].decision.cachedDocs)]_vars

\* Request r ends in an error with this step: a 500 response, or a model
\* stream that fails or breaks off in the streaming handler.
EndsInError(r) ==
    /\ req[r].pc \notin {"idle", "done"}
    /\ req'[r].pc = "done"
    /\ \/ req'[r].status = 500
       \/ /\ route = "stream"
          /\ req[r].pc = "generate"
          /\ faults' > faults
          /\ req'[r].saves = req[r].saves

\* C30: when a chat request ends in an error, a getSessionData after it
\* returns the episode list that the request's own getSessionData returned.
C30_FailureLeavesEpisodes ==
    [][\A r \in Reqs :
          EndsInError(r) => StoredEpisodes' = req[r].read.retrievalHistory]_vars

\* C28: shouldRetrieveDocuments leaves the session state it is given as it
\* was: the same conversation, the same entries in the same order, the stale
\* ones included, whatever the decision.
C28_DecisionLeavesSession == RagDecided => rag.after = rag.sessionData

\* A call that skipped a stale entry and decided for the documents of a fresh one.
C28_Witness ==
    /\ RagDecided
    /\ ~rag.decision.shouldRetrieve
    /\ \E i \in 1..Len(RagHistory) : ~rag.evals[i].called
    /\ rag.after.retrievalHistory = RagHistory

\* C29: the loop of shouldRetrieveDocuments takes the episodes in insertion
\* order, one record each; it calls the assessor for an episode exactly when
\* the episode is not stale, with the episode's joined documents, and a call
\* starts no earlier than the call before it has returned.
C29_CallsInSequence ==
    RagDecided =>
        /\ Len(rag.evals) = Len(RagHistory)
        /\ \A i \in 1..Len(rag.evals) :
              /\ rag.evals[i].entry = i
              /\ rag.evals[i].called <=> RagFresh(i)
              /\ rag.evals[i].called =>
                    rag.evals[i].context = join(RagHistory[i].documents, "\n\n")
              /\ rag.evals[i].returned >= rag.evals[i].at
        /\ \A i, j \in 1..Len(rag.evals) :
              i < j => rag.evals[j].at >= rag.evals[i].returned

\* Two episodes, both assessed, the first call taking time.
C29_Witness ==
    /\ RagDecided
    /\ Len(rag.evals) = 2
    /\ rag.evals[1].called /\ rag.evals[2].called
    /\ rag.evals[1].returned > rag.evals[1].at
    /\ rag.evals[2].at >= rag.evals[1].returned

\* C23: a chat request is received only while the server listens; the server
\* comes to listen only from the state that initializeRedis leaves, with
\* vectorStore and openaiChat set; once exited it never listens; and no
\* request is answered 503 for a missing index or chat client.
C23_ListensAfterInit ==
    [][/\ served' > served =>
             server.phase = "listening" /\ server.vectorStore /\ server.openaiChat
       /\ server'.phase = "listening" =>
             /\ server.phase \in {"redis_ready", "listening"}
             /\ server'.vectorStore /\ server'.openaiChat
       /\ server.phase = "exited" => server'.phase = "exited" /\ served' = 0
       /\ \A r \in Reqs : req'[r].status # 503]_vars

\* A chat request that was received and answered.
C23_Witness ==
    /\ server.phase = "listening"
    /\ served > 0
    /\ \E r \in Reqs : req[r].pc = "done" /\ req[r].status = 200

\* C22: once DELETE /session/:sessionId has been processed for a session that
\* had recorded messages and cached episodes, the database holds no message
\* of the session and getSessionData returns the empty state, from then on.
C22_DeleteClearsAll ==
    (del.pc = "done" /\ del.hadMessages /\ del.hadEpisodes) =>
        /\ db = <<>>
        /\ getSessionData(FALSE).data = EmptySession

plainEpisodes(retrievalHistory) ==
    [i \in 1..Len(retrievalHistory) |-> plainEntry(retrievalHistory[i])]

\* The episode list request r read, with its own changes: the episode of its
\* fresh retrieval pushed, with the documents of its working list.
ReadPlusOwn(r) ==
    IF req[r].decision.shouldRetrieve
    THEN pushEntry(req[r].read.retrievalHistory,
                   [query |-> req[r].query, documents |-> req[r].relevantDocs,
                    timestamp |-> now,
                    messageIndex |-> Len(req[r].conversationHistory)])
    ELSE req[r].read.retrievalHistory

\* C21: when a request saves after every other request has saved and
\* finished, the store holds what that request read with its own changes
\* (requests that changed the documents of an episode they reuse aside).
C21_LastWriterWins ==
    [][\A r \in DOMAIN req :
          (/\ req[r].pc = "save" /\ req'[r].pc = "done"
           /\ \A q \in DOMAIN req \ {r} : req[q].pc = "done" /\ req[q].status = 200
           /\ req[r].decision.shouldRetrieve \/ req[r].webSearches = 0)
          => plainEpisodes(StoredEpisodes') = plainEpisodes(ReadPlusOwn(r))]_vars

\* C32: the cacheAge of a decision that reuses the cache is a number of turns
\* between 0 and MAX_CONTEXT_AGE.
C32_CacheAgeInRange ==
    \A r \in Reqs :
        Reusing(r) =>
            /\ req[r].decision.cacheAge >= 0
            /\ req[r].decision.cacheAge <= MAX_CONTEXT_AGE

\* The body of request r lacks the query or the sessionId.
Invalid(r) == req[r].query = NoQuery \/ req[r].sessionId = NoSessionId
Refused(r) == req[r].pc = "done" /\ req[r].status \in {400, 503}

\* C34: a request that arrives without a query or without a sessionId is
\* answered 400, one that arrives while vectorStore or openaiChat is not set
\* is answered 503; the step that answers it leaves Redis, the in-memory map,
\* the Message rows and the pending writes alone, the request has made no
\* index query, web search, generation or save, and it takes no further step.
C34_RefusedWithoutEffect ==
    [][\A r \in Reqs :
          /\ served' = served + 1 =>
                /\ Invalid(r)' => req'[r].pc = "done" /\ req'[r].status = 400
                /\ (~Invalid(r)' /\ ~(server.vectorStore /\ server.openaiChat)) =>
                      req'[r].pc = "done" /\ req'[r].status = 503
                /\ Refused(r)' =>
                      /\ UNCHANGED <<redis, mem, db, pending>>
                      /\ req'[r].indexQueries = 0 /\ req'[r].webSearches = 0
                      /\ req'[r].generations = 0 /\ req'[r].saves = 0
          /\ (Refused(r) /\ served' = served) => req'[r] = req[r]]_vars

\* A request with a query and no sessionId was refused while the stores held
\* the state of an earlier exchange.
C34_Witness ==
    \E r \in Reqs :
        /\ Refused(r) /\ req[r].status = 400
        /\ req[r].query # NoQuery /\ req[r].sessionId = NoSessionId
        /\ StoredEpisodes # <<>>
        /\ db # <<>>

\* Every call of the assessor that request r has made so far has failed.
AllAssessorCallsFailed(r) == req[r].assessorFailures = req[r].assessorCalls

\* C33: when every assessor call of a request has failed, the decision is to
\* retrieve, not to reuse; the handler makes its one index query; and when
\* the second assessment has failed too, the handler goes on to generate the
\* answer with no web search, the other collaborators permitting.
C33_FailOpenBothGates ==
    [][\A r \in Reqs :
          (req'[r] # req[r] /\ AllAssessorCallsFailed(r)') =>
              /\ req[r].pc = "decide" =>
                    req'[r].pc = "retrieve" /\ req'[r].decision.shouldRetrieve
              /\ req[r].pc = "retrieve" =>
                    /\ req'[r].indexQueries = 1
                    /\ \/ req'[r].pc = "assess"
                       \/ req'[r].pc = "done" /\ req'[r].status = 500
              /\ req[r].pc = "assess" =>
                    /\ req'[r].pc = "generate"
                    /\ req'[r].decision.shouldRetrieve
                    /\ req'[r].indexQueries = 1
                    /\ req'[r].webSearches = 0
              /\ req'[r].pc # "webSearch"]_vars

\* A request that found a cached episode, had the assessor fail on it and on
\* the fresh documents, and is about to generate the answer.
C33_Witness ==
    \E r \in Reqs :
        /\ req[r].pc = "generate"
        /\ req[r].assessorCalls >= 2
        /\ AllAssessorCallsFailed(r)
        /\ req[r].indexQueries = 1
        /\ req[r].webSearches = 0

\* C35: a step in which a collaborator fails and no request moves is the
\* failed write of a message pair: the write is dropped, not tried again, and
\* the responses and the stored session state are as they were. The save of
\* the session state that follows the generation ends with 200 whatever
\* became of the write.
C35_WriteFailureOffPath ==
    [][/\ (faults' > faults /\ req' = req /\ redisClient' = redisClient) =>
             /\ pending # <<>>
             /\ pending' = Tail(pending)
             /\ db' = db
             /\ redis' = redis /\ mem' = mem
       /\ \A r \in Reqs :
             (req[r].pc = "save" /\ req'[r] # req[r]) =>
                 /\ req'[r].pc = "done" /\ req'[r].status = 200
                 /\ req'[r].saves = req[r].saves + 1
                 /\ req'[r].aiResponse = req[r].aiResponse]_vars

\* The first request was answered 200 and its session state saved, while the
\* write of its message pair failed before the answer and is gone.
C35_Witness ==
    \E r \in Reqs :
        /\ served = 1
        /\ req[r].pc = "done" /\ req[r].status = 200 /\ req[r].saves = 1
        /\ pending = <<>> /\ db = <<>>
        /\ faults = 1
        /\ StoredEpisodes # <<>>

\* What a session state is after JSON.stringify and JSON.parse.
plainSession(data) == parse(stringify(data))

\* The state request r hands to saveSessionData in the step that saves.
SavedBy(r) ==
    IF route = "json" THEN [req'[r].sessionData EXCEPT !.history = <<>>]
    ELSE req'[r].sessionData

\* C31: getSessionData returns the state of the most recent saveSessionData,
\* and the empty state after a clearSessionData, whether its own Redis command
\* fails or not and whatever Redis failures and error events came in between;
\* a step that neither saves nor clears leaves what it returns unchanged.
C31_GetReturnsLastSave ==
    [][LET saving == {r \in Reqs : req'[r].saves = req[r].saves + 1}
           clearing == del.pc = "clear" /\ del'.pc = "done"
       IN  /\ \A r \in saving :
                 \A fails \in {f \in BOOLEAN : f => redisClient'} :
                     plainSession(getSessionData(fails)'.data) = plainSession(SavedBy(r))
           /\ clearing =>
                 \A fails \in {f \in BOOLEAN : f => redisClient'} :
                     getSessionData(fails)'.data = EmptySession
           /\ (saving = {} /\ ~clearing) =>
                 plainSession(getSessionData(FALSE)'.data)
                     = plainSession(getSessionData(FALSE).data)]_vars

====
